---- MODULE Spec2Model ----
(***************************************************************************)
(* The interleaved (frame, view) grid-sampling schedule of sample() in     *)
(* scripts/sampling/simple_video_sample_4d.py.  Images and latents are     *)
(* opaque tensors; they are modelled by records that say where a tensor    *)
(* came from, so that index arithmetic is observable in the grid.          *)
(***************************************************************************)
EXTENDS Integers, Sequences, FiniteSets, TLC

T == 5
V == 8
n_frames == 21
n_views == V + 1
n_views_sv3d == 21
subsampled_views == <<0, 2, 5, 7, 9, 12, 14, 16, 19>>

\* Bounds of the model.
MaxSteps == 3
MaxRuns == 11
MaxListLen == 22

VARIABLES pc, error, completed, files, num_steps, elevations_deg,
          azimuths_deg, calls, images_t0, img_matrix, base_count, t0,
          frame_indices, wi, si, latent_matrix, image, cond_motion,
          cond_view, printed, diag_frames

vars == <<pc, error, completed, files, num_steps, elevations_deg,
          azimuths_deg, calls, images_t0, img_matrix, base_count, t0,
          frame_indices, wi, si, latent_matrix, image, cond_motion,
          cond_view, printed, diag_frames>>

Frames == 0 .. (n_frames - 1)
Views == 0 .. (n_views - 1)

-----------------------------------------------------------------------------
\* Tensors.

None == [kind |-> "None"]

\* read_video(...)[t]: frame t of the input video
images_v0(t) == [kind |-> "v0", t |-> t]

\* sample_sv3d(...)[k]: view k of the 21 SV3D views of frame 0
sample_sv3d(k) == [kind |-> "sv3d", k |-> k]

\* torch.roll(x, shift, 0)
Roll(x, shift) == [i \in 0 .. (n_views_sv3d - 1) |-> x[(i - shift) % n_views_sv3d]]

\* run_img2vid(...).view(T, V, ...)[i, j], 0-based i, j
run_img2vid(i, j) == [kind |-> "sample", i |-> i, j |-> j]

\* x * 2 - 1
Rescale(x) == [kind |-> "rescaled", src |-> x]

\* torch.randn(...)[t, v] drawn for window w
Noise(w, t, v) == [noise |-> <<w, t, v>>, hist |-> <<>>]

\* run_img2vid_per_step: one denoising step, position by position
run_img2vid_per_step(noisy, step) ==
    [i \in 1 .. T |-> [j \in 1 .. V |->
        [noise |-> noisy[i][j].noise, hist |-> Append(noisy[i][j].hist, step)]]]

\* decode_latents(model, latent[None], T)
decode_latents(lat) == [kind |-> "decoded", lat |-> lat]

-----------------------------------------------------------------------------
\* Index arithmetic.

\* np.arange(start, stop, stride), stride > 0
Arange(start, stop, stride) ==
    [i \in 1 .. (IF stop > start THEN (stop - start + stride - 1) \div stride ELSE 0)
        |-> start + (i - 1) * stride]

\* s[::-1]
Reverse(s) == [i \in 1 .. Len(s) |-> s[Len(s) + 1 - i]]

Range(s) == {s[i] : i \in 1 .. Len(s)}

view_indices_off == [j \in 1 .. V |-> j - 1]
\* np.arange(V) + 1
view_indices == [j \in 1 .. V |-> (j - 1) + 1]

AnchorFramesWide == Arange(T, n_frames, T)
\* np.arange(T - 1, n_frames, T - 1)
AnchorFrames == Arange(T - 1, n_frames, T - 1)

DenseStartsWide == Arange(0, n_frames - 1, T)
\* np.arange(0, n_frames - 1, T - 1)
DenseStarts == Arange(0, n_frames - 1, T - 1)

\* t0 + np.arange(T)
WindowFrames(t) == [i \in 1 .. T |-> t + (i - 1)]

NextOrderSame(fi) == fi
\* frame_indices[::-1].copy() at the top of every step iteration
NextOrder(fi) == Reverse(fi)

DiagIndexRatio(t) == ((t * n_views) \div n_frames) % n_views
\* (t // (n_frames // n_views)) % n_views
DiagIndex(t) == (t \div (n_frames \div n_views)) % n_views

\* assert len(elevations_deg) == n_views_sv3d
ElevationsOk(e) == e.len = n_views_sv3d

AzimuthsOkLoose(a) == a.len >= n_views_sv3d
\* assert len(azimuths_deg) == n_views_sv3d
AzimuthsOk(a) == a.len = n_views_sv3d

DecodeGuardAnyFrame(t, v) == v # 0
DecodeGuardIfNone(t, v) == t # 0 /\ v # 0 /\ img_matrix[t][v] = None
\* if t != 0 and v != 0
DecodeGuard(t, v) == t # 0 /\ v # 0

WriteSlotMirrored(fi, i, j) == <<fi[Len(fi) + 1 - i], view_indices[j]>>
\* latent_matrix[t, v] = samples[i, j] for i, t in enumerate(frame_indices) ...
WriteSlot(fi, i, j) == <<fi[i], view_indices[j]>>

\* f"{base_count:06d}_t000.mp4", f"{base_count:06d}_v{v:03d}.mp4", f"{base_count:06d}_diag.mp4"
FileName(n, axis, idx) == <<n, axis, idx>>

-----------------------------------------------------------------------------
\* Inputs.

ListLens == (n_views_sv3d - 1) .. MaxListLen
Scalar == [kind |-> "scalar", len |-> 1]
NoList == [kind |-> "None", len |-> 0]
List(n) == [kind |-> "list", len |-> n]
ElevInputs == {Scalar} \cup {List(n) : n \in ListLens}
AzimInputs == {NoList} \cup {List(n) : n \in ListLens}

BlankImages == [t \in Frames |-> [v \in Views |-> None]]
BlankLatents == [t \in Frames |-> [v \in Views |-> Noise(0, t, v)]]

Init ==
    /\ pc = "idle"
    /\ error = "none"
    /\ completed = 0
    /\ files = {}
    /\ num_steps = 1
    /\ elevations_deg = Scalar
    /\ azimuths_deg = NoList
    /\ calls = 0
    /\ images_t0 = [i \in 0 .. (n_views_sv3d - 1) |-> None]
    /\ img_matrix = BlankImages
    /\ base_count = 0
    /\ t0 = 0
    /\ frame_indices = << >>
    /\ wi = 0
    /\ si = 0
    /\ latent_matrix = BlankLatents
    /\ image = None
    /\ cond_motion = << >>
    /\ cond_view = << >>
    /\ printed = << >>
    /\ diag_frames = << >>

\* Lines 24-114: a call of sample(): arguments, read_video, angle validation.
Start ==
    /\ pc \in {"idle", "done", "error"}
    /\ completed < MaxRuns
    /\ \E n \in 1 .. MaxSteps, e \in ElevInputs, a \in AzimInputs :
         LET e2 == IF e.kind = "scalar" THEN List(n_views_sv3d) ELSE e
             a2 == IF a.kind = "None" THEN List(n_views_sv3d) ELSE a
         IN  /\ num_steps' = n
             /\ elevations_deg' = e2
             /\ IF ~ElevationsOk(e2)
                  THEN /\ azimuths_deg' = a
                       /\ pc' = "error"
                       /\ error' = "AssertionError"
                  ELSE /\ azimuths_deg' = a2
                       /\ IF ~AzimuthsOk(a2)
                            THEN pc' = "error" /\ error' = "AssertionError"
                            ELSE pc' = "sv3d" /\ error' = "none"
    /\ calls' = 0
    /\ images_t0' = [i \in 0 .. (n_views_sv3d - 1) |-> None]
    /\ img_matrix' = BlankImages
    /\ t0' = 0
    /\ frame_indices' = << >>
    /\ wi' = 0
    /\ si' = 0
    /\ latent_matrix' = BlankLatents
    /\ image' = None
    /\ cond_motion' = << >>
    /\ cond_view' = << >>
    /\ printed' = << >>
    /\ diag_frames' = << >>
    /\ UNCHANGED <<completed, files, base_count>>

\* Lines 116-131: SV3D views of frame 0, rolled by one.
SampleSV3D ==
    /\ pc = "sv3d"
    /\ calls' = calls + 1
    /\ images_t0' = Roll([k \in 0 .. (n_views_sv3d - 1) |-> sample_sv3d(k)], 1)
    /\ pc' = "init"
    /\ UNCHANGED <<error, completed, files, num_steps, elevations_deg,
                   azimuths_deg, img_matrix, base_count, t0, frame_indices,
                   wi, si, latent_matrix, image, cond_motion, cond_view,
                   printed, diag_frames>>

\* Lines 133-138: the two initialisation loops, in order.
InitMatrix ==
    /\ pc = "init"
    /\ LET m1 == [t \in Frames |-> [v \in Views |->
                    IF t = 0 THEN images_t0[subsampled_views[v + 1]] ELSE None]]
           m2 == [t \in Frames |-> [v \in Views |->
                    IF v = 0 THEN images_v0(t) ELSE m1[t][v]]]
       IN  img_matrix' = m2
    /\ pc' = "seed"
    /\ UNCHANGED <<error, completed, files, num_steps, elevations_deg,
                   azimuths_deg, calls, images_t0, base_count, t0,
                   frame_indices, wi, si, latent_matrix, image, cond_motion,
                   cond_view, printed, diag_frames>>

\* Lines 140-148: run number from the folder's *.mp4 count, two seed videos.
SaveSeed ==
    /\ pc = "seed"
    /\ base_count' = Cardinality(files) \div 10
    /\ files' = files \cup {FileName(base_count', "t", 0), FileName(base_count', "v", 0)}
    /\ pc' = "anchor"
    /\ UNCHANGED <<error, completed, num_steps, elevations_deg, azimuths_deg,
                   calls, images_t0, img_matrix, t0, frame_indices, wi, si,
                   latent_matrix, image, cond_motion, cond_view, printed,
                   diag_frames>>

\* Lines 150-177: load_model and the anchor pass.
AnchorPass ==
    /\ pc = "anchor"
    /\ LET fi == AnchorFrames
           im == img_matrix[0][0]
           cm == [i \in 1 .. Len(fi) |-> img_matrix[fi[i]][0]]
           cv == [j \in 1 .. V |-> img_matrix[0][view_indices[j]]]
       IN  /\ t0' = 0
           /\ frame_indices' = fi
           /\ printed' = Append(printed, fi)
           /\ image' = im
           /\ IF None \in Range(cm) \cup Range(cv)
                THEN /\ pc' = "error"
                     /\ error' = "TypeError"
                     /\ UNCHANGED <<cond_motion, cond_view, calls, img_matrix>>
                ELSE /\ cond_motion' = cm
                     /\ cond_view' = cv
                     /\ calls' = calls + 1
                     /\ img_matrix' = [t \in Frames |-> [v \in Views |->
                          IF /\ \E i \in 1 .. Len(fi) : fi[i] = t
                             /\ \E j \in 1 .. V : view_indices[j] = v
                             /\ img_matrix[t][v] = None
                            THEN LET i == CHOOSE k \in 1 .. Len(fi) : fi[k] = t
                                     j == CHOOSE k \in 1 .. V : view_indices[k] = v
                                 IN  Rescale(run_img2vid(i - 1, j - 1))
                            ELSE img_matrix[t][v]]]
                     /\ pc' = "dense"
                     /\ error' = "none"
    /\ UNCHANGED <<completed, files, num_steps, elevations_deg, azimuths_deg,
                   images_t0, base_count, wi, si, latent_matrix, diag_frames>>

\* Lines 181-184: the for loop takes its next value; fresh latents.
WindowStart ==
    /\ pc = "dense"
    /\ wi < Len(DenseStarts)
    /\ wi' = wi + 1
    /\ t0' = DenseStarts[wi + 1]
    /\ frame_indices' = WindowFrames(t0')
    /\ printed' = Append(printed, frame_indices')
    /\ latent_matrix' = [t \in Frames |-> [v \in Views |-> Noise(wi + 1, t, v)]]
    /\ si' = 0
    /\ pc' = "step"
    /\ UNCHANGED <<error, completed, files, num_steps, elevations_deg,
                   azimuths_deg, calls, images_t0, img_matrix, base_count,
                   image, cond_motion, cond_view, diag_frames>>

\* Lines 185-212: one iteration of the step loop; step = si.
DenseStep ==
    /\ pc = "step"
    /\ si < num_steps
    /\ LET fi == NextOrder(frame_indices)
           im == img_matrix[fi[1]][0]
           cm == [i \in 1 .. T |-> img_matrix[fi[i]][0]]
           cv == [j \in 1 .. V |-> img_matrix[fi[1]][view_indices[j]]]
           noisy == [i \in 1 .. T |-> [j \in 1 .. V |->
                        latent_matrix[fi[i]][view_indices[j]]]]
           samples == run_img2vid_per_step(noisy, si)
       IN  /\ frame_indices' = fi
           /\ t0' = fi[1]
           /\ image' = im
           /\ IF None \in {im} \cup Range(cm) \cup Range(cv)
                THEN /\ pc' = "error"
                     /\ error' = "TypeError"
                     /\ UNCHANGED <<cond_motion, cond_view, calls, latent_matrix, si>>
                ELSE /\ cond_motion' = cm
                     /\ cond_view' = cv
                     /\ calls' = calls + 1
                     /\ latent_matrix' = [t \in Frames |-> [v \in Views |->
                          IF \E i \in 1 .. T, j \in 1 .. V : WriteSlot(fi, i, j) = <<t, v>>
                            THEN LET p == CHOOSE q \in (1 .. T) \X (1 .. V) :
                                            WriteSlot(fi, q[1], q[2]) = <<t, v>>
                                 IN  samples[p[1]][p[2]]
                            ELSE latent_matrix[t][v]]]
                     /\ si' = si + 1
                     /\ pc' = "step"
                     /\ error' = "none"
    /\ UNCHANGED <<completed, files, num_steps, elevations_deg, azimuths_deg,
                   images_t0, img_matrix, base_count, wi, printed, diag_frames>>

\* The slots that Decode commits for the current window.
Committed == {s \in Range(frame_indices) \X Range(view_indices) : DecodeGuard(s[1], s[2])}

\* Lines 214-218: after the step loop, decode and commit the window.
Decode ==
    /\ pc = "step"
    /\ si = num_steps
    /\ img_matrix' = [t \in Frames |-> [v \in Views |->
          IF <<t, v>> \in Committed
            THEN Rescale(decode_latents(latent_matrix[t][v]))
            ELSE img_matrix[t][v]]]
    /\ calls' = calls + Cardinality(Committed)
    /\ pc' = "dense"
    /\ UNCHANGED <<error, completed, files, num_steps, elevations_deg,
                   azimuths_deg, images_t0, base_count, t0, frame_indices, wi,
                   si, latent_matrix, image, cond_motion, cond_view, printed,
                   diag_frames>>

\* Lines 220-232: per-view videos and the diagonal video; sample() returns.
SaveOutput ==
    /\ pc = "dense"
    /\ wi = Len(DenseStarts)
    /\ files' = files \cup {FileName(base_count, "v", view_indices[j]) : j \in 1 .. V}
                      \cup {FileName(base_count, "diag", 0)}
    /\ diag_frames' = [i \in 1 .. n_frames |-> img_matrix[i - 1][DiagIndex(i - 1)]]
    /\ completed' = completed + 1
    /\ pc' = "done"
    /\ UNCHANGED <<error, num_steps, elevations_deg, azimuths_deg, calls,
                   images_t0, img_matrix, base_count, t0, frame_indices, wi,
                   si, latent_matrix, image, cond_motion, cond_view, printed>>

Next ==
    \/ Start
    \/ SampleSV3D
    \/ InitMatrix
    \/ SaveSeed
    \/ AnchorPass
    \/ WindowStart
    \/ DenseStep
    \/ Decode
    \/ SaveOutput

Spec == Init /\ [][Next]_vars

-----------------------------------------------------------------------------
\* Properties.

DensePassDone == pc = "done" \/ (pc = "dense" /\ wi = Len(DenseStarts))

AfterInit == pc \in {"seed", "anchor", "dense", "step", "done"}

IsDense(x) == x.kind = "rescaled" /\ x.src.kind = "decoded"

\* C1: when the dense pass has completed, every slot img_matrix[t][v] of the
\* 21 x 9 grid is set.
C1_GridFull ==
    DensePassDone => \A t \in Frames, v \in Views : img_matrix[t][v] # None

W1_GridFull ==
    /\ pc = "done"
    /\ completed = 1
    /\ IsDense(img_matrix[20][8])
    /\ IsDense(img_matrix[1][1])

\* C2: from grid initialisation to the end of the run, view 0 of every frame
\* holds the input video frame and every non-zero view of frame 0 holds the
\* subsampled (rolled) SV3D view: no pass writes to those slots.
C2_InitKept ==
    AfterInit =>
        /\ \A t \in Frames : img_matrix[t][0] = images_v0(t)
        /\ \A v \in 1 .. V :
              img_matrix[0][v] = sample_sv3d((subsampled_views[v + 1] - 1) % n_views_sv3d)

W2_InitKept ==
    /\ pc = "done"
    /\ img_matrix[0][8] = sample_sv3d(18)
    /\ img_matrix[0][0] = images_v0(0)
    /\ img_matrix[20][0] = images_v0(20)
    /\ IsDense(img_matrix[1][8])

\* C3: an elevation or azimuth list whose length is not 21 ends the call in
\* an assertion error with no diffusion-oracle call made.
C3_ValidationFirst ==
    (\/ elevations_deg.kind = "list" /\ elevations_deg.len # 21
     \/ azimuths_deg.kind = "list" /\ azimuths_deg.len # 21)
        => pc = "error" /\ error = "AssertionError" /\ calls = 0

W3_ValidationFirst ==
    /\ pc = "error"
    /\ error = "AssertionError"
    /\ elevations_deg = List(21)
    /\ azimuths_deg = List(22)
    /\ calls = 0
    /\ completed = 1

\* C4: the k-th completed run into an initially empty folder names its files
\* with run number k.
C4_SequentialRunNumbers ==
    /\ pc \in {"anchor", "dense", "step"} => base_count = completed
    /\ pc = "done" => base_count = completed - 1

\* C5 as stated: frame t of the diagonal video is taken from view
\* floor(t / (21/9)) mod 9.
C5_DiagRatio ==
    pc = "done" =>
        \A t \in Frames : diag_frames[t + 1] = img_matrix[t][((t * 9) \div 21) % 9]

\* C5 amended: frame t of the diagonal video is taken from view
\* floor(t / floor(21/9)) mod 9 = floor(t / 2) mod 9.
C5_DiagFloorDiv ==
    pc = "done" =>
        \A t \in Frames : diag_frames[t + 1] = img_matrix[t][(t \div 2) % 9]

W5_DiagFloorDiv ==
    /\ pc = "done"
    /\ diag_frames[5] = img_matrix[4][2]
    /\ diag_frames[19] = img_matrix[18][0]
    /\ diag_frames[21] = img_matrix[20][1]

DenseCommit == pc = "step" /\ pc' = "dense"

\* C6 as stated: the dense pass never overwrites a slot that is already set.
C6_NoOverwrite ==
    [][DenseCommit =>
         \A t \in Frames, v \in Views :
            img_matrix[t][v] # None => img_matrix'[t][v] = img_matrix[t][v]]_vars

\* C6 amended: the commit of a window writes the decoded latent into every
\* slot (t, v) of the window with t # 0 and v in 1..8, set or not, and into
\* no other slot.
C6_CommitSlots ==
    [][DenseCommit =>
         \A t \in Frames, v \in Views :
            IF t \in Range(frame_indices) /\ t # 0 /\ v \in 1 .. V
              THEN /\ img_matrix'[t][v] = Rescale(decode_latents(latent_matrix[t][v]))
                   /\ img_matrix'[t][v] # img_matrix[t][v]
              ELSE img_matrix'[t][v] = img_matrix[t][v]]_vars

W6_CommitSlots ==
    /\ pc = "dense"
    /\ wi = 2
    /\ IsDense(img_matrix[4][1])
    /\ img_matrix[4][1].src.lat.noise = <<2, 4, 1>>
    /\ img_matrix[8][1].src.lat.noise = <<2, 8, 1>>

Ascending == WindowFrames(DenseStarts[wi])

\* C7 as stated: iteration step uses ascending frame order when step is even
\* and descending order when step is odd.
C7_EvenAscending ==
    (pc = "step" /\ si >= 1) =>
        frame_indices = IF (si - 1) % 2 = 0 THEN Ascending ELSE Reverse(Ascending)

\* C7 amended: iteration step (= si - 1 once it has run) uses descending
\* frame order when step is even and ascending order when step is odd, for
\* the loop variable t0, the motion conditioning and the frame indices.
C7_EvenDescending ==
    (pc = "step" /\ si >= 1) =>
        LET order == IF (si - 1) % 2 = 0 THEN Reverse(Ascending) ELSE Ascending
        IN  /\ frame_indices = order
            /\ t0 = order[1]
            /\ cond_motion = [i \in 1 .. T |-> images_v0(order[i])]

W7_EvenDescending ==
    /\ pc = "step"
    /\ wi = 2
    /\ si = 2
    /\ frame_indices = <<4, 5, 6, 7, 8>>
    /\ t0 = 4

\* C8: every image committed by the dense pass is decoded from the latent
\* of its own slot, drawn as noise for that window and updated by the steps
\* 0 .. num_steps-1 in that order; during the step loop every latent of the
\* window sits in the slot it was drawn for.
C8_FullyDenoised ==
    /\ \A t \in Frames, v \in Views :
          IsDense(img_matrix[t][v]) =>
             LET lat == img_matrix[t][v].src.lat
             IN  /\ lat.hist = [s \in 1 .. num_steps |-> s - 1]
                 /\ lat.noise[2] = t
                 /\ lat.noise[3] = v
    /\ pc = "step" =>
          \A t \in Range(frame_indices), v \in 1 .. V :
             latent_matrix[t][v] = [noise |-> <<wi, t, v>>, hist |-> [s \in 1 .. si |-> s - 1]]

W8_FullyDenoised ==
    /\ pc = "done"
    /\ num_steps = 3
    /\ IsDense(img_matrix[10][3])
    /\ img_matrix[10][3].src.lat = [noise |-> <<3, 10, 3>>, hist |-> <<0, 1, 2>>]

\* C9: the anchor pass uses frames [4, 8, 12, 16, 20]; the dense pass visits
\* the windows starting at 0, 4, 8, 12, 16 in that order, each covering
\* start .. start+4, whatever the step loop assigned to t0.
C9_Windows ==
    /\ Len(printed) >= 1 => printed[1] = <<4, 8, 12, 16, 20>>
    /\ \A k \in 2 .. Len(printed) : printed[k] = [i \in 1 .. 5 |-> 4 * (k - 2) + (i - 1)]
    /\ pc = "step" => Len(printed) = wi + 1 /\ Range(frame_indices) = Range(printed[wi + 1])
    /\ DensePassDone => Len(printed) = 6

W9_Windows ==
    /\ pc = "done"
    /\ num_steps = 1
    /\ t0 = 20
    /\ Len(printed) = 6
    /\ printed[6] = <<16, 17, 18, 19, 20>>

\* C10: every slot read to build a conditioning input is set when it is
\* read; when a window starts, the non-zero views of its first and of its
\* last frame are set.
C10_CondSet ==
    /\ error # "TypeError"
    /\ pc \in {"dense", "step", "done"} =>
          /\ image # None
          /\ None \notin Range(cond_motion) \cup Range(cond_view)
          /\ Len(cond_motion) = T /\ Len(cond_view) = V
    /\ (pc = "step" /\ si = 0) =>
          \A v \in 1 .. V : /\ img_matrix[frame_indices[1]][v] # None
                            /\ img_matrix[frame_indices[T]][v] # None

W10_CondSet ==
    /\ pc = "step"
    /\ wi = 2
    /\ si = 1
    /\ error = "none"
    /\ image = images_v0(8)
    /\ cond_view[1] = img_matrix[8][1]
    /\ cond_view[1] = Rescale(run_img2vid(1, 0))

====
